---------------------------- MODULE Spec2Model ----------------------------
(***************************************************************************)
(* A model of the SOCKS5 proxy of src/src/lib.rs: the accept loop of       *)
(* Server::serve, and for every accepted connection the task               *)
(* Socks5Handler::init / handle_req / auth, the parser                     *)
(* Socks5Req::from_stream, the resolution Socks5Req::as_socket_addr, the   *)
(* dial, the success reply and the relay.                                  *)
(*                                                                         *)
(* Every await of the code is one position (pc) of a session; an action    *)
(* is the code from one await to the next.  A read_exact either completes  *)
(* (the bytes are there) or fails (end of stream or transport error); a    *)
(* write_all of the 2-byte and of the 10-byte reply either writes all its  *)
(* bytes or fails having written none (the socket's send buffer is empty   *)
(* when they are written).  `.unwrap()` on an Err is a panic: the task     *)
(* unwinds and drops what it owns; `?` on an Err returns it to the caller. *)
(***************************************************************************)
EXTENDS Naturals, Sequences, FiniteSets, TLC

\* ------------------------------------------------------------------ bounds
NSessions == 2          \* connections the listener may hand to the server
MaxMethods == 1         \* method counts 0..MaxMethods (and 255) are offered
MaxDomainLen == 1       \* domain names of 0..MaxDomainLen bytes
MaxEndpoints == 2       \* the resolver answers with 0..MaxEndpoints endpoints
MaxPayload == 2         \* bytes each peer sends during the relay

\* --------------------------------------------------------- program constants
SOCKS_VERSION == 5
RESERVED == 0
NoAuth == 0
UserPass == 2
RepSuccess == 0
AtypV4 == 1
AtypDomain == 3
AtypV6 == 4

Sessions == 1..NSessions

VARIABLES
    srv,          \* the accept loop of Server::serve: "accepting" | "stopped"
    listenerErr,  \* accept() on the listening socket has returned an error
    backlog,      \* connections still to arrive at the listener
    naccepted,    \* connections accept() has returned
    ss            \* ss[s]: the task spawned for the s-th accepted connection

vars == <<srv, listenerErr, backlog, naccepted, ss>>

\* ------------------------------------------------------------- sequences
Repeat(n, b) == [i \in 1..n |-> b]

Take(q, n) == SubSeq(q, 1, n)

Drop(q, n) == SubSeq(q, n + 1, Len(q))

IsPrefix(p, q) == Len(p) <= Len(q) /\ Take(q, Len(p)) = p

\* the two bytes taken low byte first
get_u16_le(b) == b[2] * 256 + b[1]

\* bytes::Buf::get_u16 on a two-byte slice: big-endian
get_u16(b) == b[1] * 256 + b[2]

\* ------------------------------------------------ the peers of a session
(* What the client of a session sends is fixed by its plan: the greeting,   *)
(* the request, then npay payload bytes and the close of its write side.    *)
(* An eager client has sent all of it when the connection is accepted; the  *)
(* other sends it message by message.  The target sends tpay bytes and      *)
(* closes its write side; the target of an eager plan has sent them when    *)
(* the dial opens the connection.                                           *)
BasePlan ==
    [ver |-> 5, nmethods |-> 1, mval |-> 0,
     rver |-> 5, cmd |-> 1, rsv |-> 0, atyp |-> 1,
     addr |-> <<127, 0, 0, 1>>, portb |-> <<39, 15>>,
     npay |-> 1, tpay |-> 1, eager |-> FALSE]

V6Bytes == <<32, 1, 13, 184, 0, 0, 0, 0, 0, 0, 0, 0, 0, 0, 0, 1>>

NameBytes(n) == [i \in 1..n |-> 96 + i]

\* the address field of a request, as the client sends it
AddrChoices ==
    {<<AtypV4, <<127, 0, 0, 1>> >>, <<AtypV4, <<255, 0, 10, 1>> >>,
     <<AtypV6, V6Bytes>>}
    \cup {<<AtypDomain, <<n>> \o NameBytes(n)>> : n \in 0..MaxDomainLen}
    \cup {<<AtypDomain, <<1, 255>> >>}
    \cup {<<a, <<127, 0, 0, 1>> >> : a \in {0, 2, 5, 255}}

GreetingPlans ==
    {[BasePlan EXCEPT !.ver = v, !.nmethods = n, !.mval = m,
                      !.npay = 0, !.tpay = 0] :
        v \in {4, 5}, n \in (0..MaxMethods) \cup {255}, m \in {NoAuth, UserPass, 255}}

RequestPlans ==
    {[BasePlan EXCEPT !.rver = h[1], !.cmd = h[2], !.rsv = h[3],
                      !.atyp = a[1], !.addr = a[2], !.portb = p,
                      !.npay = 0, !.tpay = 0] :
        h \in {<<5, 1, 0>>, <<4, 2, 1>>}, a \in AddrChoices,
        p \in {<<39, 15>>, <<255, 255>>}}

PayloadPlans ==
    {[BasePlan EXCEPT !.npay = k, !.tpay = j, !.eager = e] :
        k \in 0..MaxPayload, j \in 0..MaxPayload, e \in BOOLEAN}

Plans == GreetingPlans \cup RequestPlans \cup PayloadPlans

\* the plans of the sessions that run side by side
SidePlans ==
    {[BasePlan EXCEPT !.eager = TRUE, !.tpay = 0],
     [BasePlan EXCEPT !.eager = TRUE, !.tpay = 0, !.atyp = 2]}

Greeting(p) == <<p.ver, p.nmethods>> \o Repeat(p.nmethods, p.mval)

Request(p) == <<p.rver, p.cmd, p.rsv, p.atyp>> \o p.addr \o p.portb

ClientByte(k) == 100 + k

TargetByte(k) == 200 + k

ClientPayload(p) == [k \in 1..p.npay |-> ClientByte(k)]

TargetPayload(p) == [k \in 1..p.tpay |-> TargetByte(k)]

\* the k-th message of a client: greeting, request, then one payload byte each
ClientMessage(p, k) ==
    IF k = 1 THEN Greeting(p)
    ELSE IF k = 2 THEN Request(p)
    ELSE <<ClientByte(k - 2)>>

ClientMessages(p) == 2 + p.npay

ClientAll(p) == Greeting(p) \o Request(p) \o ClientPayload(p)

\* ----------------------------------------------------------- the session
NoDir == [buf |-> <<>>, st |-> "running", eof |-> FALSE]

NoSession ==
    [pc |-> "idle", end |-> "none", err |-> "none", failpc |-> "none",
     plan |-> BasePlan,
     cstage |-> 0, cin |-> <<>>, cfin |-> FALSE, cout |-> <<>>, copen |-> "none",
     socks_version |-> 0, auth_nmethods |-> 0,
     atyp |-> "none", addr_len |-> 0, addr |-> <<>>, port |-> 0, nread |-> 0,
     lookup |-> <<>>, addrs |-> <<>>, dialed |-> <<>>,
     tstream |-> "none", tstage |-> 0, tin |-> <<>>, tfin |-> FALSE, tgot |-> <<>>,
     c2t |-> NoDir, t2c |-> NoDir]

\* ------------------------------------------------------ how a task ends
\* only the client stream is closed when the task ends
DroppedClientOnly(x) ==
    [x EXCEPT !.copen = "closed", !.cin = <<>>, !.c2t = NoDir, !.t2c = NoDir]

\* the streams a task owns are dropped: closed, what they held discarded
Dropped(x) ==
    [x EXCEPT !.copen = "closed", !.cin = <<>>,
              !.tstream = IF x.tstream = "none" THEN "none" ELSE "closed",
              !.tin = <<>>, !.c2t = NoDir, !.t2c = NoDir]

\* `.unwrap()` on an Err: the task panics and unwinds
Panicked(x, e) ==
    [Dropped(x) EXCEPT !.pc = "ended", !.end = "panic",
                       !.err = IF x.err = "none" THEN e ELSE x.err,
                       !.failpc = IF x.failpc = "none" THEN x.pc ELSE x.failpc]

\* a panic of the task spawned for session s takes every task and the accept
\* loop with it
TaskPanicAbort(s, x, e) ==
    /\ ss' = [t \in Sessions |->
                IF t = s THEN Panicked(x, e)
                ELSE IF ss[t].pc \in {"idle", "ended"} THEN ss[t]
                ELSE Panicked(ss[t], "abort")]
    /\ srv' = "stopped"
    /\ UNCHANGED <<listenerErr, backlog, naccepted>>

\* tokio::spawn: a panic ends the spawned task alone
TaskPanic(s, x, e) ==
    /\ ss' = [ss EXCEPT ![s] = Panicked(x, e)]
    /\ UNCHANGED <<srv, listenerErr, backlog, naccepted>>

\* a failure reply of the protocol (general failure) goes out with the Err
ReturnErrReplied(x, e) ==
    [x EXCEPT !.pc = "shutdown", !.err = e, !.failpc = x.pc,
              !.cout = x.cout \o <<5, 1, 0, 1, 0, 0, 0, 0, 0, 0>>,
              !.tstream = IF x.tstream = "none" THEN "none" ELSE "closed",
              !.tin = <<>>, !.c2t = NoDir, !.t2c = NoDir]

\* `?` on an Err in handle_req: the Err goes back to init, the local `target`
\* is dropped
ReturnErr(x, e) ==
    [x EXCEPT !.pc = "shutdown", !.err = e, !.failpc = x.pc,
              !.tstream = IF x.tstream = "none" THEN "none" ELSE "closed",
              !.tin = <<>>, !.c2t = NoDir, !.t2c = NoDir]

\* the header fields live in one place that all the tasks write
StepShared(s, x) ==
    /\ ss' = [t \in Sessions |->
                IF t = s THEN x
                ELSE [ss[t] EXCEPT !.socks_version = x.socks_version,
                                   !.auth_nmethods = x.auth_nmethods]]
    /\ UNCHANGED <<srv, listenerErr, backlog, naccepted>>

\* a step of the task of session s to the record x, nothing else changing:
\* the handler and its stream belong to the task alone
Step(s, x) ==
    /\ ss' = [ss EXCEPT ![s] = x]
    /\ UNCHANGED <<srv, listenerErr, backlog, naccepted>>

\* the awaits of init, auth, from_stream and handle_req, in the order the code
\* reaches them: the reply is written after the dial
ThenReplyFirst(pc) ==
    CASE pc = "read_header" -> "read_methods"
      [] pc = "read_methods" -> "write_auth"
      [] pc = "write_auth" -> "read_first4"
      [] pc = "read_addr" -> "read_port"
      [] pc = "read_addr_len" -> "read_domain"
      [] pc = "read_domain" -> "read_port"
      [] pc = "read_port" -> "write_reply"
      [] pc = "write_reply" -> "resolve"
      [] pc = "resolve" -> "connect"
      [] pc = "connect" -> "relay"

Then(pc) ==
    CASE pc = "read_header" -> "read_methods"
      [] pc = "read_methods" -> "write_auth"
      [] pc = "write_auth" -> "read_first4"
      [] pc = "read_addr" -> "read_port"
      [] pc = "read_addr_len" -> "read_domain"
      [] pc = "read_domain" -> "read_port"
      [] pc = "read_port" -> "resolve"
      [] pc = "resolve" -> "connect"
      [] pc = "connect" -> "write_reply"
      [] pc = "write_reply" -> "relay"

\* the read takes one byte more than it was asked for
ConsumedOneMore(x, n) ==
    [x EXCEPT !.cin = Drop(x.cin, n + 1), !.nread = x.nread + n + 1]

\* read_exact of n bytes completes: the bytes are consumed
Consumed(x, n) ==
    [x EXCEPT !.cin = Drop(x.cin, n), !.nread = x.nread + n]

\* ------------------------------------------------------------ the server
\* the client end of an accepted connection
Connected(x) ==
    IF x.plan.eager
    THEN [x EXCEPT !.pc = "read_header", !.copen = "open",
                   !.cin = ClientAll(x.plan), !.cfin = TRUE,
                   !.cstage = ClientMessages(x.plan)]
    ELSE [x EXCEPT !.pc = "read_header", !.copen = "open"]

\* one spawn for the accepted connection
Spawned(n) == {n + 1}

\* while let Ok((stream, _)) = self.listener.accept().await { tokio::spawn(..) }
Accept ==
    /\ srv = "accepting"
    /\ backlog > 0
    /\ naccepted < NSessions
    /\ ss' = [s \in Sessions |->
                IF s \in Spawned(naccepted) THEN Connected(ss[s]) ELSE ss[s]]
    /\ naccepted' = naccepted + 1
    /\ backlog' = backlog - 1
    /\ UNCHANGED <<srv, listenerErr>>

\* accept() returns Err: the loop ends
AcceptErr ==
    /\ srv = "accepting"
    /\ srv' = "stopped"
    /\ listenerErr' = TRUE
    /\ UNCHANGED <<backlog, naccepted, ss>>

\* ------------------------------------------------------------ the client
ClientSend(s) ==
    LET x == ss[s] IN
    /\ x.copen \in {"open", "wrshut"}
    /\ ~x.cfin
    /\ x.cstage < ClientMessages(x.plan)
    /\ Step(s, [x EXCEPT !.cstage = x.cstage + 1,
                         !.cin = x.cin \o ClientMessage(x.plan, x.cstage + 1)])

\* the client closes its write side once it has sent everything
ClientClose(s) ==
    LET x == ss[s] IN
    /\ x.copen \in {"open", "wrshut"}
    /\ ~x.cfin
    /\ x.cstage = ClientMessages(x.plan)
    /\ Step(s, [x EXCEPT !.cfin = TRUE])

\* ------------------------------------------------- Socks5Handler::init
ReadHeader(s) ==
    LET x == ss[s] IN
    /\ x.pc = "read_header"
    /\ \/ /\ Len(x.cin) >= 2
          /\ Step(s, [Consumed(x, 2) EXCEPT !.socks_version = x.cin[1],
                                            !.auth_nmethods = x.cin[2],
                                            !.pc = Then(x.pc)])
       \/ TaskPanic(s, x, "io")

\* ------------------------------------------------- Socks5Handler::auth
ReadMethods(s) ==
    LET x == ss[s]
        n == x.auth_nmethods IN
    /\ x.pc = "read_methods"
    /\ \/ /\ Len(x.cin) >= n
          /\ Step(s, [Consumed(x, n) EXCEPT !.pc = Then(x.pc)])
       \/ /\ n > 0
          /\ Step(s, ReturnErr(x, "io"))

\* the reply names the username / password method
AuthResponseUserPass == <<SOCKS_VERSION, UserPass>>

\* response[0] = SOCKS_VERSION; response[1] = AuthMethod::NoAuth.into()
AuthResponse == <<SOCKS_VERSION, NoAuth>>

WriteAuth(s) ==
    LET x == ss[s] IN
    /\ x.pc = "write_auth"
    /\ \/ Step(s, [x EXCEPT !.cout = x.cout \o AuthResponse, !.pc = Then(x.pc)])
       \/ Step(s, ReturnErr(x, "io"))

\* --------------------------------------------------- Socks5Req::from_stream
\* every tag that is neither Domain nor V6 is taken for V4
Atyp_from_u8_lax(n) ==
    IF n = AtypDomain THEN "Domain"
    ELSE IF n = AtypV6 THEN "V6"
    ELSE "V4"

Atyp_from_u8(n) ==
    IF n = AtypV4 THEN "V4"
    ELSE IF n = AtypDomain THEN "Domain"
    ELSE IF n = AtypV6 THEN "V6"
    ELSE "AddressTypeNotSupported"

\* a request whose command is not CONNECT is refused
AtypOfConnect(first4) ==
    IF first4[2] = 1 THEN Atyp_from_u8(first4[4]) ELSE "AddressTypeNotSupported"

\* let atyp = Atyp::from_u8(first4[3]): of the four bytes only the last is
\* looked at
AtypOf(first4) == Atyp_from_u8(first4[4])

ReadFirst4(s) ==
    LET x == ss[s]
        atyp == AtypOf(Take(x.cin, 4)) IN
    /\ x.pc = "read_first4"
    /\ \/ /\ Len(x.cin) >= 4
          /\ atyp # "AddressTypeNotSupported"
          /\ Step(s, [Consumed(x, 4) EXCEPT
                        !.atyp = atyp,
                        !.pc = IF atyp = "Domain" THEN "read_addr_len" ELSE "read_addr"])
       \/ /\ Len(x.cin) >= 4
          /\ atyp = "AddressTypeNotSupported"
          /\ TaskPanic(s, Consumed(x, 4), "AddressTypeNotSupported")
       \/ TaskPanic(s, x, "io")

\* four address bytes are read whatever the type
AddrBytesFour(atyp) == 4

AddrBytes(atyp) == IF atyp = "V4" THEN 4 ELSE 16

ReadAddr(s) ==
    LET x == ss[s]
        n == AddrBytes(x.atyp) IN
    /\ x.pc = "read_addr"
    /\ \/ /\ Len(x.cin) >= n
          /\ Step(s, [Consumed(x, n) EXCEPT !.addr = Take(x.cin, n), !.pc = Then(x.pc)])
       \/ TaskPanic(s, x, "io")

ReadAddrLen(s) ==
    LET x == ss[s] IN
    /\ x.pc = "read_addr_len"
    /\ \/ /\ Len(x.cin) >= 1
          /\ Step(s, [Consumed(x, 1) EXCEPT !.addr_len = x.cin[1], !.pc = Then(x.pc)])
       \/ TaskPanic(s, x, "io")

ReadDomain(s) ==
    LET x == ss[s]
        n == x.addr_len IN
    /\ x.pc = "read_domain"
    /\ \/ /\ Len(x.cin) >= n
          /\ Step(s, [Consumed(x, n) EXCEPT !.addr = Take(x.cin, n), !.pc = Then(x.pc)])
       \/ /\ n > 0
          /\ TaskPanic(s, x, "io")

ReadPort(s) ==
    LET x == ss[s] IN
    /\ x.pc = "read_port"
    /\ \/ /\ Len(x.cin) >= 2
          /\ Step(s, [Consumed(x, 2) EXCEPT !.port = get_u16(Take(x.cin, 2)),
                                            !.pc = Then(x.pc)])
       \/ TaskPanic(s, x, "io")

\* ------------------------------------------------ Socks5Req::as_socket_addr
\* the four bytes taken as a number stored low byte first
SocketAddrV4Reversed(ip, port) ==
    [kind |-> "V4", ip |-> <<ip[4], ip[3], ip[2], ip[1]>>, port |-> port,
     flowinfo |-> 0, scope_id |-> 0]

SocketAddrV4(ip, port) ==
    [kind |-> "V4", ip |-> ip, port |-> port, flowinfo |-> 0, scope_id |-> 0]

SocketAddrV6(ip, port, flowinfo, scope_id) ==
    [kind |-> "V6", ip |-> ip, port |-> port, flowinfo |-> flowinfo,
     scope_id |-> scope_id]

\* Ipv6Addr::new of eight get_u16 taken from the 16 bytes in turn
Groups(addr) == [i \in 1..8 |-> get_u16(SubSeq(addr, 2 * i - 1, 2 * i))]

Cont(b) == b >= 128 /\ b <= 191

\* String::from_utf8 accepts the bytes
RECURSIVE Utf8(_)
Utf8(b) ==
    IF b = <<>> THEN TRUE
    ELSE LET h == b[1]
             n == Len(b) IN
         IF h < 128 THEN Utf8(Drop(b, 1))
         ELSE IF h >= 194 /\ h <= 223
              THEN n >= 2 /\ Cont(b[2]) /\ Utf8(Drop(b, 2))
         ELSE IF h >= 224 /\ h <= 239
              THEN /\ n >= 3
                   /\ Cont(b[2]) /\ Cont(b[3])
                   /\ (h = 224 => b[2] >= 160)
                   /\ (h = 237 => b[2] <= 159)
                   /\ Utf8(Drop(b, 3))
         ELSE IF h >= 240 /\ h <= 244
              THEN /\ n >= 4
                   /\ Cont(b[2]) /\ Cont(b[3]) /\ Cont(b[4])
                   /\ (h = 240 => b[2] >= 144)
                   /\ (h = 244 => b[2] <= 143)
                   /\ Utf8(Drop(b, 4))
         ELSE FALSE

\* u16::to_string, as ASCII digits
RECURSIVE Decimal(_)
Decimal(n) ==
    IF n < 10 THEN <<48 + n>>
    ELSE Decimal(n \div 10) \o <<48 + (n % 10)>>

\* the length byte is kept in front of the name
HostPortWithLen(addr, port) == <<Len(addr)>> \o addr \o <<58>> \o Decimal(port)

\* domain.push(':'); domain.push_str(&port.to_string())
HostPort(addr, port) == addr \o <<58>> \o Decimal(port)

\* what the system resolver may answer to a lookup: any list without
\* repetition of at most MaxEndpoints endpoints, all with the port asked for
Pool(port) == {SocketAddrV4(<<10, 0, 0, k>>, port) : k \in 1..MaxEndpoints}

Answers(port) ==
    {q \in UNION {[1..n -> Pool(port)] : n \in 0..MaxEndpoints} :
        \A i, j \in 1..Len(q) : i # j => q[i] # q[j]}

Resolve(s) ==
    LET x == ss[s] IN
    /\ x.pc = "resolve"
    /\ \/ /\ x.atyp = "V4"
          /\ Step(s, [x EXCEPT !.addrs = <<SocketAddrV4(x.addr, x.port)>>,
                               !.pc = Then(x.pc)])
       \/ /\ x.atyp = "V6"
          /\ Step(s, [x EXCEPT !.addrs = <<SocketAddrV6(Groups(x.addr), x.port, 0, 0)>>,
                               !.pc = Then(x.pc)])
       \/ /\ x.atyp = "Domain"
          /\ ~Utf8(x.addr)
          /\ TaskPanic(s, x, "utf8")
       \/ /\ x.atyp = "Domain"
          /\ Utf8(x.addr)
          /\ TaskPanic(s, [x EXCEPT !.lookup = HostPort(x.addr, x.port)], "resolve")
       \/ /\ x.atyp = "Domain"
          /\ Utf8(x.addr)
          /\ \E q \in Answers(x.port) :
                Step(s, [x EXCEPT !.lookup = HostPort(x.addr, x.port),
                                  !.addrs = q, !.pc = Then(x.pc)])

\* ------------------------------------------- Socks5Handler::handle_req
\* the target end of a connection that a dial has opened
Dialed(x) ==
    IF x.plan.eager
    THEN [x EXCEPT !.tstream = "open", !.tin = TargetPayload(x.plan),
                   !.tfin = TRUE, !.tstage = x.plan.tpay]
    ELSE [x EXCEPT !.tstream = "open"]

\* the addresses are tried from the last one back
NextAddrFromEnd(x) == x.addrs[Len(x.addrs) - Len(x.dialed)]

\* the address of the next attempt: the first one not tried yet
NextAddr(x) == x.addrs[Len(x.dialed) + 1]

\* TcpStream::connect(&socket_addr[..]): the addresses in turn, the first
\* connection that opens is the stream, the last error otherwise
Connect(s) ==
    LET x == ss[s]
        i == Len(x.dialed) + 1 IN
    /\ x.pc = "connect"
    /\ \/ /\ i <= Len(x.addrs)
          /\ Step(s, [Dialed(x) EXCEPT !.dialed = Append(x.dialed, NextAddr(x)),
                                       !.pc = Then(x.pc)])
       \/ /\ i < Len(x.addrs)
          /\ Step(s, [x EXCEPT !.dialed = Append(x.dialed, NextAddr(x))])
       \/ /\ i = Len(x.addrs)
          /\ Step(s, ReturnErr([x EXCEPT !.dialed = Append(x.dialed, NextAddr(x))], "io"))
       \/ /\ x.addrs = <<>>
          /\ Step(s, ReturnErr(x, "io"))

\* the reply carries a bound address and port
SuccessReplyBound == <<SOCKS_VERSION, RepSuccess, RESERVED, 1, 127, 0, 0, 1, 4, 56>>

SuccessReply == <<SOCKS_VERSION, RepSuccess, RESERVED, 1, 0, 0, 0, 0, 0, 0>>

WriteReply(s) ==
    LET x == ss[s] IN
    /\ x.pc = "write_reply"
    /\ \/ Step(s, [x EXCEPT !.cout = x.cout \o SuccessReply, !.pc = Then(x.pc)])
       \/ Step(s, ReturnErr(x, "io"))

\* if handler.handle_req().await.is_err() { handler.stream.shutdown().await.unwrap() }
\* and the handler is dropped as init returns
Shutdown(s) ==
    LET x == ss[s] IN
    /\ x.pc = "shutdown"
    /\ \/ Step(s, [Dropped(x) EXCEPT !.pc = "ended", !.end = "err"])
       \/ TaskPanic(s, x, "io")

\* ----------------------- tokio::io::copy_bidirectional(&mut stream, &mut target)
(* Each direction reads what its reader has into a buffer, writes the       *)
(* buffer to its writer, and at the reader's end of stream, the buffer      *)
(* written, shuts the writer's write side down and is done.  The call       *)
(* returns Ok when both directions are done and the first Err at once.      *)

\* the write takes the last k bytes of the buffer
CopiedFromEnd(buf, k) == SubSeq(buf, Len(buf) - k + 1, Len(buf))

\* the bytes a write of k bytes takes from the buffer
Copied(buf, k) == Take(buf, k)

\* the relay returns as soon as one of the directions is done
FinishedEither(x) ==
    IF x.c2t.st = "done" \/ x.t2c.st = "done"
    THEN [Dropped(x) EXCEPT !.pc = "ended", !.end = "ok"]
    ELSE x

\* both directions done: Ok(()) up to init, target and handler dropped
Finished(x) ==
    IF x.c2t.st = "done" /\ x.t2c.st = "done"
    THEN [Dropped(x) EXCEPT !.pc = "ended", !.end = "ok"]
    ELSE x

RelayReadClient(s) ==
    LET x == ss[s] IN
    /\ x.pc = "relay"
    /\ x.c2t.st = "running"
    /\ ~x.c2t.eof
    /\ \/ \E k \in 1..Len(x.cin) :
             Step(s, [x EXCEPT !.cin = Drop(x.cin, k),
                               !.c2t.buf = x.c2t.buf \o Take(x.cin, k)])
       \/ /\ x.cin = <<>>
          /\ x.cfin
          /\ Step(s, [x EXCEPT !.c2t.eof = TRUE])

RelayWriteTarget(s) ==
    LET x == ss[s] IN
    /\ x.pc = "relay"
    /\ x.c2t.st = "running"
    /\ \E k \in 1..Len(x.c2t.buf) :
          Step(s, [x EXCEPT !.tgot = x.tgot \o Copied(x.c2t.buf, k),
                            !.c2t.buf = Drop(x.c2t.buf, k)])

\* the writer is shut down at the end of stream, the buffer written or not
MayShutdownEarly(d) == d.st = "running" /\ d.eof

\* a direction may shut its writer's write side down: its reader is at the
\* end of stream and its buffer is written
MayShutdown(d) == d.st = "running" /\ d.eof /\ d.buf = <<>>

RelayShutdownTarget(s) ==
    LET x == ss[s] IN
    /\ x.pc = "relay"
    /\ MayShutdown(x.c2t)
    /\ Step(s, Finished([x EXCEPT !.c2t.st = "done", !.tstream = "wrshut"]))

RelayReadTarget(s) ==
    LET x == ss[s] IN
    /\ x.pc = "relay"
    /\ x.t2c.st = "running"
    /\ ~x.t2c.eof
    /\ \/ \E k \in 1..Len(x.tin) :
             Step(s, [x EXCEPT !.tin = Drop(x.tin, k),
                               !.t2c.buf = x.t2c.buf \o Take(x.tin, k)])
       \/ /\ x.tin = <<>>
          /\ x.tfin
          /\ Step(s, [x EXCEPT !.t2c.eof = TRUE])

RelayWriteClient(s) ==
    LET x == ss[s] IN
    /\ x.pc = "relay"
    /\ x.t2c.st = "running"
    /\ \E k \in 1..Len(x.t2c.buf) :
          Step(s, [x EXCEPT !.cout = x.cout \o Copied(x.t2c.buf, k),
                            !.t2c.buf = Drop(x.t2c.buf, k)])

RelayShutdownClient(s) ==
    LET x == ss[s] IN
    /\ x.pc = "relay"
    /\ MayShutdown(x.t2c)
    /\ Step(s, Finished([x EXCEPT !.t2c.st = "done", !.copen = "wrshut"]))

\* the Err of the relay is dropped: handle_req goes on relaying
RelayFailedIgnored(x) == [x EXCEPT !.err = "io", !.failpc = x.pc]

\* what handle_req does with the Err of copy_bidirectional: `?`
RelayFailed(x) == ReturnErr(x, "io")

\* a read, a write or a shutdown of either direction fails
RelayError(s) ==
    LET x == ss[s] IN
    /\ x.pc = "relay"
    /\ Step(s, RelayFailed(x))

\* ------------------------------------------------------------ the target
TargetSend(s) ==
    LET x == ss[s] IN
    /\ x.tstream \in {"open", "wrshut"}
    /\ ~x.tfin
    /\ x.tstage < x.plan.tpay
    /\ Step(s, [x EXCEPT !.tstage = x.tstage + 1,
                         !.tin = x.tin \o <<TargetByte(x.tstage + 1)>>])

TargetClose(s) ==
    LET x == ss[s] IN
    /\ x.tstream \in {"open", "wrshut"}
    /\ ~x.tfin
    /\ x.tstage = x.plan.tpay
    /\ Step(s, [x EXCEPT !.tfin = TRUE])

\* ------------------------------------------------------ the specification
\* one connection, of any plan
InitOne ==
    /\ backlog = 1
    /\ \E p \in Plans :
          ss = [s \in Sessions |-> IF s = 1 THEN [NoSession EXCEPT !.plan = p]
                                   ELSE NoSession]

\* NSessions connections side by side
InitSide ==
    /\ backlog = NSessions
    /\ ss \in [Sessions -> {[NoSession EXCEPT !.plan = p] : p \in SidePlans}]

Init ==
    /\ srv = "accepting"
    /\ listenerErr = FALSE
    /\ naccepted = 0
    /\ (InitOne \/ InitSide)

SessionNext(s) ==
    \/ ClientSend(s)
    \/ ClientClose(s)
    \/ ReadHeader(s)
    \/ ReadMethods(s)
    \/ WriteAuth(s)
    \/ ReadFirst4(s)
    \/ ReadAddr(s)
    \/ ReadAddrLen(s)
    \/ ReadDomain(s)
    \/ ReadPort(s)
    \/ Resolve(s)
    \/ Connect(s)
    \/ WriteReply(s)
    \/ RelayReadClient(s)
    \/ RelayWriteTarget(s)
    \/ RelayShutdownTarget(s)
    \/ RelayReadTarget(s)
    \/ RelayWriteClient(s)
    \/ RelayShutdownClient(s)
    \/ RelayError(s)
    \/ Shutdown(s)
    \/ TargetSend(s)
    \/ TargetClose(s)

Next ==
    \/ Accept
    \/ AcceptErr
    \/ \E s \in Sessions : SessionNext(s)

Spec == Init /\ [][Next]_vars

\* one connection, and the runtime polls the relay whenever its I/O is ready
FairInit ==
    /\ srv = "accepting"
    /\ listenerErr = FALSE
    /\ naccepted = 0
    /\ InitOne

RelayFairness ==
    \A s \in Sessions :
        /\ WF_vars(RelayReadClient(s))
        /\ WF_vars(RelayWriteTarget(s))
        /\ WF_vars(RelayShutdownTarget(s))
        /\ WF_vars(RelayReadTarget(s))
        /\ WF_vars(RelayWriteClient(s))
        /\ WF_vars(RelayShutdownClient(s))

FairSpec == FairInit /\ [][Next]_vars /\ RelayFairness

\* stream.shutdown().await of init is polled until it returns
ShutdownFairness == \A s \in Sessions : WF_vars(Shutdown(s))

TerminationSpec == FairInit /\ [][Next]_vars /\ RelayFairness /\ ShutdownFairness

\* ------------------------------------------ two sessions in lockstep
(* Sessions 1 and 2 are given inputs that differ only in the bytes the code *)
(* reads and never looks at: the version and the method values of the       *)
(* greeting, the version, command and reserved bytes of the request.        *)
(* Session 1 takes any step it can; session 2 then has to take the same     *)
(* step with the same outcome of the environment (the same read or write    *)
(* failing, the same resolver answer, the same dial result).                *)
IgnoredBytes(p) == <<p.ver, p.mval, p.rver, p.cmd, p.rsv>>

WithIgnored(p, b) ==
    [p EXCEPT !.ver = b[1], !.mval = b[2], !.rver = b[3], !.cmd = b[4], !.rsv = b[5]]

IgnoredChoices ==
    {<<4, 0, 5, 1, 0>>, <<5, 2, 5, 1, 0>>, <<5, 0, 4, 1, 0>>, <<5, 0, 5, 2, 0>>,
     <<5, 0, 5, 1, 1>>, <<4, 2, 4, 2, 1>>, <<0, 255, 255, 255, 255>>}

TwinShapes ==
    {BasePlan, [BasePlan EXCEPT !.eager = TRUE]}
    \cup {[BasePlan EXCEPT !.atyp = a[1], !.addr = a[2], !.npay = 0, !.tpay = 0] :
            a \in AddrChoices}
    \cup {[BasePlan EXCEPT !.nmethods = n, !.npay = 0, !.tpay = 0] :
            n \in 0..MaxMethods}

TwinPairs ==
    {<<p, WithIgnored(p, b)>> : p \in TwinShapes, b \in IgnoredChoices}
    \cup {<<WithIgnored(p, <<4, 2, 4, 2, 1>>), p>> : p \in TwinShapes}

\* what a client of plan p has sent with its first k messages
Sent(p, k) ==
    Take(ClientAll(p),
         IF k = 0 THEN 0
         ELSE IF k = 1 THEN Len(Greeting(p))
         ELSE Len(Greeting(p)) + Len(Request(p)) + (k - 2))

\* the session of plan q that is where x is: the same position, fields and
\* streams, its unread input being the bytes of q at the same places, and
\* the version byte it has stored being the one of q
Twin(x, q) ==
    LET sent == Sent(q, x.cstage) IN
    [x EXCEPT !.plan = q,
              !.cin = Drop(sent, Len(sent) - Len(x.cin)),
              !.socks_version = IF x.nread >= 2 THEN q.ver ELSE x.socks_version]

TwinInSync == ss[2] = Twin(ss[1], ss[2].plan)

TwinInit ==
    /\ srv = "accepting"
    /\ listenerErr = FALSE
    /\ naccepted = 0
    /\ backlog = 2
    /\ \E pr \in TwinPairs :
          ss = [s \in Sessions |->
                  IF s = 1 THEN [NoSession EXCEPT !.plan = pr[1]]
                  ELSE IF s = 2 THEN [NoSession EXCEPT !.plan = pr[2]]
                  ELSE NoSession]

TwinLeader ==
    /\ TwinInSync
    /\ (Accept \/ SessionNext(1))

TwinFollower ==
    /\ ~TwinInSync
    /\ (Accept \/ SessionNext(2))
    /\ ss'[2] = Twin(ss[1], ss[2].plan)

TwinNext == TwinLeader \/ TwinFollower

TwinSpec == TwinInit /\ [][TwinNext]_vars

\* ------------------------------------------------------------- properties
\* the phase of the session protocol a task is in
Phase(x) ==
    CASE x.pc = "idle" -> 0
      [] x.pc = "read_header" -> 1                                \* Greeting
      [] x.pc \in {"read_methods", "write_auth"} -> 2             \* Auth
      [] x.pc \in {"read_first4", "read_addr", "read_addr_len",
                   "read_domain", "read_port"} -> 3               \* Request
      [] x.pc \in {"resolve", "connect"} -> 4                     \* Dialing
      [] x.pc = "write_reply" -> 5                                \* ReplySent
      [] x.pc = "relay" -> 6                                      \* Relaying
      [] x.pc \in {"shutdown", "ended"} -> 7                      \* Closed

HandshakePcs ==
    {"read_header", "read_methods", "write_auth", "read_first4", "read_addr",
     "read_addr_len", "read_domain", "read_port", "resolve", "connect"}

\* the bytes of the greeting and of the request of a plan
GreetingLen(p) == 2 + p.nmethods

RequestLen(p) == 4 + Len(p.addr) + 2

\* the I/O of the phases before the phase of x is complete
PriorIoDone(x) ==
    LET ph == Phase(x) IN
    /\ (ph \in 2..6 => x.nread >= 2)
    /\ (ph \in 3..6 => /\ x.nread >= GreetingLen(x.plan)
                       /\ x.cout # <<>>)
    /\ (ph \in 4..6 => x.nread = GreetingLen(x.plan) + RequestLen(x.plan))
    /\ (ph \in 5..6 => x.tstream # "none")
    /\ (ph = 6 => Len(x.cout) >= 12)

PhaseStep(x, y) ==
    \/ Phase(y) = Phase(x)
    \/ /\ Phase(y) = Phase(x) + 1
       /\ y.err = "none"
       /\ PriorIoDone(y)
    \/ /\ Phase(y) = 7
       /\ y.err # "none"

\* C1: within a session the phases come in the order Greeting, Auth, Request,
\* Dialing, ReplySent, Relaying, Closed: every step of a session stays in its
\* phase, or enters the next one with the I/O of the earlier phases complete
\* and no error, or goes to Closed with an error.
C1_PhaseOrder == [][\A s \in Sessions : PhaseStep(ss[s], ss'[s])]_vars

C1_Witness ==
    \E s \in Sessions : ss[s].pc = "ended" /\ ss[s].end = "ok" /\ ss[s].tgot # <<>>

\* C2: a session that failed in Greeting, Auth, Request or Dialing has
\* written to its client nothing or exactly the auth reply [5, 0], and once it
\* has ended its client connection is closed.
C2_NoReplyOnFailure ==
    \A s \in Sessions :
        ss[s].failpc \in HandshakePcs =>
            /\ ss[s].cout \in {<<>>, <<5, 0>>}
            /\ (ss[s].pc = "ended" => ss[s].copen = "closed")

C2_Witness ==
    \E s \in Sessions :
        /\ ss[s].pc = "ended"
        /\ ss[s].failpc = "connect"
        /\ Len(ss[s].dialed) >= 2
        /\ ss[s].dialed = ss[s].addrs

\* C3: bytes beyond the auth reply are written to the client only with a
\* target connected, and they are the 10 bytes [5,0,0,1,0,0,0,0,0,0], once,
\* followed by nothing but bytes of the target.
C3_SuccessReply ==
    \A s \in Sessions :
        Len(ss[s].cout) > 2 =>
            /\ ss[s].tstream # "none"
            /\ ss[s].dialed # <<>>
            /\ Len(ss[s].cout) >= 12
            /\ SubSeq(ss[s].cout, 3, 12) = <<5, 0, 0, 1, 0, 0, 0, 0, 0, 0>>
            /\ IsPrefix(Drop(ss[s].cout, 12), TargetPayload(ss[s].plan))

C3_Witness ==
    \E s \in Sessions :
        /\ Len(ss[s].cout) >= 12
        /\ ss[s].atyp = "V6"
        /\ ss[s].port = 65535

C4_AuthReplyState ==
    \A s \in Sessions :
        ss[s].cout # <<>> =>
            /\ Take(ss[s].cout, 2) = <<5, 0>>
            /\ ss[s].nread >= 2 + ss[s].plan.nmethods

C4_AuthReplyStep ==
    \A s \in Sessions :
        (ss[s].cout = <<>> /\ ss'[s].cout # <<>>) =>
            /\ ss'[s].cout = <<5, 0>>
            /\ ss[s].nread = 2 + ss[s].plan.nmethods
            /\ ss'[s].nread = ss[s].nread

\* C4: whatever the version, the method count and the method bytes of the
\* greeting, the first bytes written to the client are [5, 0], and they are
\* written when exactly the 2 header bytes and the NMETHODS method bytes
\* have been read.
C4_AuthReply == [](C4_AuthReplyState) /\ [][C4_AuthReplyStep]_vars

C4_Witness ==
    \E s \in Sessions :
        /\ ss[s].cout = <<5, 0>>
        /\ ss[s].plan.nmethods = 255
        /\ ss[s].plan.mval = 2
        /\ ss[s].plan.ver = 4

\* C5: once the 4-byte header of a request with an address type outside
\* {1, 3, 4} is read, the session has ended with AddressTypeNotSupported, has
\* read no byte after the header, has resolved and dialed nothing, has
\* written nothing after the auth reply, and its client connection is closed.
C5_BadAtyp ==
    \A s \in Sessions :
        (/\ ss[s].plan.atyp \notin {1, 3, 4}
         /\ ss[s].nread >= GreetingLen(ss[s].plan) + 4) =>
            /\ ss[s].pc = "ended"
            /\ ss[s].err = "AddressTypeNotSupported"
            /\ ss[s].nread = GreetingLen(ss[s].plan) + 4
            /\ ss[s].addrs = <<>>
            /\ ss[s].dialed = <<>>
            /\ ss[s].tstream = "none"
            /\ ss[s].cout = <<5, 0>>
            /\ ss[s].copen = "closed"

C5_Witness ==
    \E s \in Sessions :
        /\ ss[s].plan.atyp = 255
        /\ ss[s].err = "AddressTypeNotSupported"
        /\ ss[s].nread = GreetingLen(ss[s].plan) + 4

\* C6: no step changes the state of two sessions: a failure of one session,
\* like any of its steps, leaves the state of every other session as it was.
C6_Isolation ==
    [][\A s, t \in Sessions :
          s # t => (ss'[s] = ss[s] \/ ss'[t] = ss[t])]_vars

C6_Witness ==
    \E s, t \in Sessions :
        /\ s < t
        /\ ss[s].end = "panic"
        /\ ss[s].err = "AddressTypeNotSupported"
        /\ ss[t].end = "ok"
        /\ ss[t].tgot = ClientPayload(ss[t].plan)
        /\ ss[t].tgot # <<>>

Spawns == {s \in Sessions : ss[s].pc # "idle"}

C7_AcceptLoopState ==
    /\ Cardinality(Spawns) = naccepted
    /\ (srv = "stopped" => listenerErr)
    /\ ((srv = "accepting" /\ backlog > 0 /\ naccepted < NSessions) => ENABLED Accept)

C7_AcceptLoopStep ==
    /\ srv' # srv => (srv' = "stopped" /\ ~listenerErr /\ listenerErr')
    /\ naccepted' # naccepted =>
          /\ naccepted' = naccepted + 1
          /\ \E s \in Sessions :
                /\ ss[s].pc = "idle"
                /\ ss'[s].pc = "read_header"
                /\ \A t \in Sessions \ {s} : ss'[t] = ss[t]

\* C7: the sessions spawned are as many as the connections accepted, every
\* accept spawning one; the accept loop stops only by an error of accept on
\* the listening socket, and while it has not stopped it accepts the next
\* connection whatever the handlers spawned before have come to.
C7_AcceptLoop == [](C7_AcceptLoopState) /\ [][C7_AcceptLoopStep]_vars

C7_Witness ==
    /\ srv = "accepting"
    /\ backlog > 0
    /\ ss[1].pc = "ended"
    /\ ss[1].end = "panic"
    /\ ss[2].pc = "idle"
    /\ ENABLED Accept

\* what the peers have written so far during the relay
SentByClient(x) ==
    Take(ClientPayload(x.plan), IF x.cstage > 2 THEN x.cstage - 2 ELSE 0)

SentByTarget(x) == Take(TargetPayload(x.plan), x.tstage)

\* C8: the bytes delivered to the target are a prefix of the bytes the client
\* wrote after its request, and the bytes delivered to the client after the
\* success reply are a prefix of the bytes the target wrote; while the relay
\* runs, what is delivered, what the relay holds and what is still unread
\* make up exactly what the peer wrote.
C8_Transparency ==
    \A s \in Sessions :
        LET x == ss[s] IN
        /\ IsPrefix(x.tgot, SentByClient(x))
        /\ (Len(x.cout) < 12 => x.tgot = <<>>)
        /\ (Len(x.cout) >= 12 => IsPrefix(Drop(x.cout, 12), SentByTarget(x)))
        /\ (x.pc = "relay" =>
              /\ x.tgot \o x.c2t.buf \o x.cin = SentByClient(x)
              /\ Drop(x.cout, 12) \o x.t2c.buf \o x.tin = SentByTarget(x))

C8_Witness ==
    \E s \in Sessions :
        /\ ss[s].pc = "relay"
        /\ Len(ss[s].tgot) >= 2
        /\ ss[s].tgot = ClientPayload(ss[s].plan)
        /\ Len(ss[s].cout) >= 14
        /\ Drop(ss[s].cout, 12) = TargetPayload(ss[s].plan)

C9_HalfCloseState ==
    \A s \in Sessions :
        LET x == ss[s] IN
        x.pc = "relay" =>
            /\ (x.c2t.st = "done" =>
                  /\ x.tstream = "wrshut"
                  /\ x.cfin
                  /\ x.tgot = SentByClient(x))
            /\ (x.tstream = "wrshut" => x.c2t.st = "done")
            /\ (x.t2c.st = "done" =>
                  /\ x.copen = "wrshut"
                  /\ x.tfin
                  /\ Drop(x.cout, 12) = SentByTarget(x))
            /\ (x.copen = "wrshut" => x.t2c.st = "done")
            /\ (x.t2c.st = "running" /\ x.t2c.buf # <<>> => ENABLED RelayWriteClient(s))
            /\ (x.c2t.st = "running" /\ x.c2t.buf # <<>> => ENABLED RelayWriteTarget(s))

C9_HalfCloseStep ==
    \A s \in Sessions :
        LET x == ss[s]
            y == ss'[s] IN
        /\ (x.pc = "relay" /\ x.c2t.st = "running" /\ y.c2t.st = "done"
              /\ x.t2c.st = "running") =>
                 (y.pc = "relay" /\ y.t2c = x.t2c /\ y.copen = "open" /\ y.tin = x.tin)
        /\ (x.pc = "relay" /\ x.t2c.st = "running" /\ y.t2c.st = "done"
              /\ x.c2t.st = "running") =>
                 (y.pc = "relay" /\ y.c2t = x.c2t /\ y.tstream = "open" /\ y.cin = x.cin)

C9_HalfCloseLive ==
    \A s \in Sessions :
        /\ (ss[s].pc = "relay" /\ ss[s].cfin)
              ~> (ss[s].pc # "relay" \/ ss[s].tstream = "wrshut")
        /\ (ss[s].pc = "relay" /\ ss[s].tfin)
              ~> (ss[s].pc # "relay" \/ ss[s].copen = "wrshut")

\* C9: during the relay the write side of a stream is shut down only when
\* the opposite stream is at its end and every byte its peer wrote has been
\* delivered; the step that shuts it down leaves the other direction, still
\* running, as it was, and that direction goes on delivering; and once a
\* peer has closed its write side the relay ends or the opposite write side
\* is shut down.
C9_HalfClose ==
    /\ [](C9_HalfCloseState)
    /\ [][C9_HalfCloseStep]_vars
    /\ C9_HalfCloseLive

C9_Witness ==
    \E s \in Sessions :
        /\ ss[s].pc = "relay"
        /\ ss[s].c2t.st = "done"
        /\ Len(ss[s].tgot) >= 2
        /\ ss[s].t2c.st = "running"
        /\ ss[s].t2c.buf # <<>>
        /\ ~ss[s].tfin

C10_RelayErrorState ==
    \A s \in Sessions :
        ss[s].failpc = "relay" =>
            /\ ss[s].pc \in {"shutdown", "ended"}
            /\ ss[s].tstream = "closed"
            /\ (ss[s].pc = "ended" => ss[s].copen = "closed")

C10_RelayErrorStep ==
    \A s \in Sessions :
        /\ ss[s].failpc = "relay" =>
              (ss'[s].tgot = ss[s].tgot /\ ss'[s].cout = ss[s].cout)
        /\ (ss[s].failpc = "none" /\ ss'[s].failpc = "relay") =>
              (ss'[s].tgot = ss[s].tgot /\ ss'[s].cout = ss[s].cout)

\* C10: with the transport error of the relay the session leaves the relay
\* and the target stream is closed in the same step, no byte is delivered to
\* either peer from then on, and the ended session has its client stream
\* closed.
C10_RelayError == [](C10_RelayErrorState) /\ [][C10_RelayErrorStep]_vars

C10_Witness ==
    \E s \in Sessions :
        /\ ss[s].pc = "ended"
        /\ ss[s].failpc = "relay"
        /\ ss[s].tgot # <<>>
        /\ Len(ss[s].tgot) < Len(SentByClient(ss[s]))
        /\ Len(ss[s].cout) > 12

C11_DialState ==
    \A s \in Sessions :
        LET x == ss[s] IN
        /\ x.dialed = Take(x.addrs, Len(x.dialed))
        /\ (x.tstream # "none" => x.dialed # <<>>)
        /\ (x.failpc = "connect" =>
              /\ x.dialed = x.addrs
              /\ x.tstream = "none"
              /\ x.pc \in {"shutdown", "ended"}
              /\ x.err = "io"
              /\ x.cout = <<5, 0>>)

C11_DialStep ==
    \A s \in Sessions :
        LET x == ss[s]
            y == ss'[s] IN
        /\ y.dialed # x.dialed =>
              /\ x.pc = "connect"
              /\ x.tstream = "none"
              /\ Len(x.dialed) < Len(x.addrs)
              /\ y.dialed = Append(x.dialed, x.addrs[Len(x.dialed) + 1])
        /\ (x.tstream = "none" /\ y.tstream # "none") =>
              /\ Len(y.dialed) = Len(x.dialed) + 1
              /\ y.pc = "write_reply"
        /\ (x.pc = "connect" /\ y.pc # "connect" /\ y.tstream = "none") =>
              (y.failpc = "connect" /\ y.dialed = x.addrs)

\* C11: the endpoints dialed are at every moment the first ones of the
\* resolved list, in its order, each step dialing one; the attempt that opens
\* the target stream is the last one made; the dial is left without a stream
\* only when the whole list (empty or not) has failed, and then the session
\* is on its way to Closed with an I/O error and no reply written.
C11_Dial == [](C11_DialState) /\ [][C11_DialStep]_vars

C11_Witness ==
    \E s \in Sessions :
        /\ ss[s].tstream = "open"
        /\ Len(ss[s].addrs) = 2
        /\ Len(ss[s].dialed) = 1

\* the steps whose failures are parsing, reading and name resolution failures
ParseSteps ==
    {"read_header", "read_methods", "read_first4", "read_addr", "read_addr_len",
     "read_domain", "read_port", "resolve"}

\* C12: a failure of a parsing, reading or resolution step of a session is
\* handed back as an error value to the session handler, which goes on to
\* close the stream itself: the step that fails never ends the task by a
\* panic.
C12_ErrorsReturned ==
    [][\A s \in Sessions :
          LET x == ss[s]
              y == ss'[s] IN
          (x.failpc = "none" /\ y.failpc \in ParseSteps) =>
              (y.pc = "shutdown" /\ y.end = "none" /\ y.err # "none")]_vars

\* the request has been turned into socket addresses
Resolved(x) ==
    \/ x.pc \in {"connect", "write_reply", "relay"}
    \/ x.failpc \in {"connect", "write_reply", "relay"}

\* C13: a request of address type 0x01 with the address bytes a, b, c, d and
\* the port bytes p_hi, p_lo resolves to the one endpoint a.b.c.d with the
\* port p_hi * 256 + p_lo, and no other endpoint is ever dialed.
C13_IPv4Endpoint ==
    \A s \in Sessions :
        LET x == ss[s]
            p == x.plan
            e == [kind |-> "V4",
                  ip |-> <<p.addr[1], p.addr[2], p.addr[3], p.addr[4]>>,
                  port |-> p.portb[1] * 256 + p.portb[2],
                  flowinfo |-> 0, scope_id |-> 0] IN
        p.atyp = AtypV4 =>
            /\ Resolved(x) => x.addrs = <<e>>
            /\ x.dialed \in {<<>>, <<e>>}
            /\ x.tstream # "none" => x.dialed = <<e>>

C13_Witness ==
    \E s \in Sessions :
        /\ ss[s].plan.atyp = AtypV4
        /\ ss[s].plan.addr = <<255, 0, 10, 1>>
        /\ ss[s].plan.portb = <<39, 15>>
        /\ ss[s].tstream = "open"
        /\ ss[s].dialed = ss[s].addrs

\* C14: a request of address type 0x04 resolves to the one IPv6 endpoint
\* whose eight groups are the sixteen address bytes taken two by two, high
\* byte first, with the request's big-endian port, flow-info 0 and scope-id 0.
C14_IPv6Endpoint ==
    \A s \in Sessions :
        LET x == ss[s]
            p == x.plan
            a == p.addr
            e == [kind |-> "V6",
                  ip |-> <<a[1] * 256 + a[2], a[3] * 256 + a[4],
                           a[5] * 256 + a[6], a[7] * 256 + a[8],
                           a[9] * 256 + a[10], a[11] * 256 + a[12],
                           a[13] * 256 + a[14], a[15] * 256 + a[16]>>,
                  port |-> p.portb[1] * 256 + p.portb[2],
                  flowinfo |-> 0, scope_id |-> 0] IN
        p.atyp = AtypV6 =>
            /\ Resolved(x) => x.addrs = <<e>>
            /\ x.dialed \in {<<>>, <<e>>}

C14_Witness ==
    \E s \in Sessions :
        /\ ss[s].plan.atyp = AtypV6
        /\ ss[s].plan.portb = <<39, 15>>
        /\ ss[s].addrs # <<>>
        /\ ss[s].addrs[1].ip[1] = 8193
        /\ ss[s].addrs[1].ip[2] = 3512
        /\ ss[s].addrs[1].ip[8] = 1
        /\ ss[s].addrs[1].port = 9999
        /\ ss[s].tstream = "open"

\* the resolution step of the request has been taken
ResolveTaken(x) ==
    \/ x.pc \in {"connect", "write_reply", "relay"}
    \/ x.failpc \in {"resolve", "connect", "write_reply", "relay"}

\* the number that a sequence of ASCII digits writes
RECURSIVE DigitsValue(_)
DigitsValue(q) ==
    IF q = <<>> THEN 0
    ELSE DigitsValue(Take(q, Len(q) - 1)) * 10 + (q[Len(q)] - 48)

\* q is the decimal text of n: digits only, no leading zero
IsDecimalOf(q, n) ==
    /\ q # <<>>
    /\ \A i \in 1..Len(q) : q[i] >= 48 /\ q[i] <= 57
    /\ (Len(q) > 1 => q[1] # 48)
    /\ DigitsValue(q) = n

\* the name sent by the client of plan p: the N bytes after the length byte
SentName(p) == SubSeq(p.addr, 2, 1 + p.addr[1])

\* the descriptor holds the name and the port sent, and the resolver was
\* asked for <name>:<port>
LookupOfSent(x) ==
    LET p == x.plan
        n == p.addr[1] IN
    /\ x.addr = SentName(p)
    /\ x.addr_len = n
    /\ x.port = p.portb[1] * 256 + p.portb[2]
    /\ Len(x.lookup) > n + 1
    /\ Take(x.lookup, n) = SentName(p)
    /\ x.lookup[n + 1] = 58
    /\ IsDecimalOf(Drop(x.lookup, n + 1), p.portb[1] * 256 + p.portb[2])

\* C15 as stated: once the resolution step of any domain request has been
\* taken, the resolver has been asked for <name>:<port>, the name being the N
\* bytes after the length byte and the port the big-endian value of the two
\* bytes after them.
C15_DomainLookupAnyName ==
    \A s \in Sessions :
        (ss[s].plan.atyp = AtypDomain /\ ResolveTaken(ss[s])) => LookupOfSent(ss[s])

\* C15: once the resolution step of a domain request whose N name bytes are
\* valid UTF-8 has been taken, the resolver has been asked for <name>:<port>,
\* the name being exactly the N bytes after the length byte (the length byte
\* excluded) and the port the big-endian value of the two bytes after them.
C15_DomainLookup ==
    \A s \in Sessions :
        (/\ ss[s].plan.atyp = AtypDomain
         /\ Utf8(SentName(ss[s].plan))
         /\ ResolveTaken(ss[s])) => LookupOfSent(ss[s])

C15_Witness ==
    \E s \in Sessions :
        /\ ss[s].plan.atyp = AtypDomain
        /\ ss[s].plan.addr = <<1, 97>>
        /\ ss[s].plan.portb = <<39, 15>>
        /\ ss[s].lookup = <<97, 58, 57, 57, 57, 57>>
        /\ ss[s].tstream = "open"

C16_RelayEndStep ==
    \A s \in Sessions :
        LET x == ss[s]
            y == ss'[s] IN
        (x.pc = "relay" /\ y.pc # "relay") =>
            \/ y.failpc = "relay" /\ y.err = "io" /\ y.pc = "shutdown"
            \/ /\ y.pc = "ended" /\ y.end = "ok" /\ y.failpc = "none"
               /\ x.cfin /\ x.tfin
               /\ x.cin = <<>> /\ x.tin = <<>>
               /\ y.tgot = ClientPayload(x.plan)
               /\ Drop(y.cout, 12) = TargetPayload(x.plan)

C16_RelayEndLive ==
    \A s \in Sessions :
        /\ (ss[s].pc = "relay" /\ ss[s].cfin /\ ss[s].tfin) ~> (ss[s].pc = "ended")
        /\ (ss[s].failpc = "relay") ~> (ss[s].pc = "ended")

\* C16: a session in the relay whose two peers have closed their write sides
\* eventually is closed, and so is a session whose relay met a transport
\* error; and the relay is left only by a transport error or when both peers
\* have closed their write sides and every byte either of them sent has been
\* delivered to the other.
C16_RelayEnd == [][C16_RelayEndStep]_vars /\ C16_RelayEndLive

C16_Witness ==
    \E s \in Sessions :
        /\ ss[s].pc = "ended"
        /\ ss[s].end = "ok"
        /\ Len(ss[s].tgot) = 2
        /\ Len(ss[s].cout) = 14

\* request parsing has produced its descriptor
Parsed(x) ==
    \/ x.pc \in {"resolve", "connect", "write_reply", "relay"}
    \/ x.failpc \in {"resolve", "connect", "write_reply", "relay"}

\* C18 as stated: the raw address of a descriptor is 4 bytes for IPv4, 16 for
\* IPv6 and, for a domain name, the length byte N followed by the N name
\* bytes.
C18_RawAddressPrefixed ==
    \A s \in Sessions :
        LET x == ss[s]
            p == x.plan IN
        Parsed(x) =>
            /\ (p.atyp = AtypV4 => Len(x.addr) = 4)
            /\ (p.atyp = AtypV6 => Len(x.addr) = 16)
            /\ (p.atyp = AtypDomain =>
                  /\ Len(x.addr) = 1 + p.addr[1]
                  /\ x.addr[1] = p.addr[1])

\* C18: the raw address of a descriptor is the 4 address bytes sent for IPv4,
\* the 16 sent for IPv6 and, for a domain name, the N name bytes alone: the
\* length byte N is not part of it.
C18_RawAddress ==
    \A s \in Sessions :
        LET x == ss[s]
            p == x.plan IN
        Parsed(x) =>
            /\ (p.atyp = AtypV4 => Len(x.addr) = 4 /\ x.addr = p.addr)
            /\ (p.atyp = AtypV6 => Len(x.addr) = 16 /\ x.addr = p.addr)
            /\ (p.atyp = AtypDomain =>
                  /\ Len(x.addr) = p.addr[1]
                  /\ x.addr = SentName(p))

C18_Witness ==
    \E s \in Sessions :
        /\ Parsed(ss[s])
        /\ ss[s].plan.atyp = AtypDomain
        /\ ss[s].plan.addr = <<1, 97>>
        /\ ss[s].addr = <<97>>

\* C19: when the auth reply is written exactly 2 + NMETHODS bytes have been
\* read; when the request is parsed exactly 4 + L + 2 more, L being 4, 1 + N
\* or 16; from then to the relay no byte is read, so that what the client
\* sent after its request is all unread; and what the target receives is the
\* head of what the client sent after its request.
C19_Framing ==
    \A s \in Sessions :
        LET x == ss[s]
            p == x.plan
            L == CASE p.atyp = AtypV4 -> 4
                   [] p.atyp = AtypV6 -> 16
                   [] p.atyp = AtypDomain -> 1 + p.addr[1]
                   [] OTHER -> 0 IN
        /\ x.pc \in {"write_auth", "read_first4"} => x.nread = 2 + p.nmethods
        /\ Parsed(x) => x.nread = (2 + p.nmethods) + (4 + L + 2)
        /\ x.pc \in {"resolve", "connect", "write_reply"} =>
              /\ x.cin = SentByClient(x)
              /\ x.tgot = <<>>
        /\ x.pc = "relay" => x.tgot \o x.c2t.buf \o x.cin = SentByClient(x)
        /\ IsPrefix(x.tgot, ClientPayload(p))

C19_Witness ==
    \E s \in Sessions :
        /\ ss[s].pc = "relay"
        /\ ss[s].plan.eager
        /\ ss[s].nread = 13
        /\ ss[s].tgot = <<ClientByte(1), ClientByte(2)>>

\* C20: a session that has ended, by the relay returning, by an error
\* returned to init and the shutdown that follows, by that shutdown failing
\* or by a panic of any step, has its client stream closed and its target
\* stream, if one was opened, closed.
C20_EndedClosed ==
    \A s \in Sessions :
        LET x == ss[s] IN
        x.pc = "ended" =>
            /\ x.end \in {"ok", "err", "panic"}
            /\ x.copen = "closed"
            /\ x.tstream \in {"none", "closed"}
            /\ (x.dialed # <<>> /\ x.failpc # "connect" => x.tstream = "closed")

C20_Witness ==
    \E s \in Sessions :
        /\ ss[s].pc = "ended"
        /\ ss[s].end = "ok"
        /\ ss[s].tstream = "closed"
        /\ ss[s].copen = "closed"

\* C17: of two sessions whose inputs differ only in the version and method
\* values of the greeting and in the version, command and reserved bytes of
\* the request, whatever step one takes the other can take with the same
\* outcome, and side by side they have written the same bytes to the client,
\* delivered the same bytes to the target, resolved and dialed the same
\* endpoints and are at the same place of the same phase, ended or not in
\* the same way.
C17_Independence ==
    LET x == ss[1]
        y == ss[2] IN
    /\ WithIgnored(y.plan, IgnoredBytes(x.plan)) = x.plan
    /\ TwinInSync =>
          /\ x.cout = y.cout
          /\ x.tgot = y.tgot
          /\ x.lookup = y.lookup /\ x.addrs = y.addrs /\ x.dialed = y.dialed
          /\ Phase(x) = Phase(y) /\ x.pc = y.pc
          /\ x.end = y.end /\ x.err = y.err /\ x.failpc = y.failpc
          /\ x.copen = y.copen /\ x.tstream = y.tstream
    /\ ~TwinInSync => ENABLED TwinFollower

C17_Witness ==
    /\ TwinInSync
    /\ IgnoredBytes(ss[1].plan) = <<5, 0, 5, 1, 0>>
    /\ IgnoredBytes(ss[2].plan) = <<4, 2, 4, 2, 1>>
    /\ ss[2].pc = "ended"
    /\ ss[2].end = "ok"
    /\ ss[2].dialed # <<>>
    /\ Len(ss[2].cout) = 13
    /\ Len(ss[2].tgot) = 1

=============================================================================
